---- MODULE Spec2Model ----
(***************************************************************************)
(* A model of memoria's indexing pipeline (skill_helpers.index_documents), *)
(* of its chunker (DocumentProcessorAdapter / DocumentProcessorStub        *)
(* chunk_text) and of its search engine (SearchEngineAdapter.search).      *)
(*                                                                         *)
(* Three specifications share the variables below; each one leaves the     *)
(* variables of the other two untouched:                                   *)
(*   SpecIndex   one run of index_documents, one loop iteration per step   *)
(*   SpecChunk   one call of chunk_text, one loop iteration per step       *)
(*   SpecSearch  one call of SearchEngineAdapter.search                    *)
(***************************************************************************)
EXTENDS Integers, Sequences, FiniteSets, TLC

VARIABLES
    \* ---- index_documents (skill_helpers.py) ----
    docs_list,               \* the globbed sources, in order
    commit_batch_size,       \* COMMIT_BATCH_SIZE of this run
    next_doc,                \* number of sources the loop has handled
    pending_chunks,          \* ids of the chunks waiting for embed + commit
    total_chunks_committed,
    tracker,                 \* the ProgressTracker of the run
    collection,              \* ids stored in the vector index
    flushes,                 \* history: one record per _embed_and_commit_batch call
    ipc,                     \* "idle" | "loop" | "done"
    \* ---- chunk_text ----
    impl,                    \* "adapter" | "stub"
    text, chunk_size, overlap,
    start,                   \* loop variable of chunk_text
    chunks,                  \* chunks emitted so far
    iterations,              \* history: number of loop iterations run
    cpc,                     \* "idle" | "loop" | "returned" | "raised"
    cerr,                    \* exception type when cpc = "raised"
    \* ---- SearchEngineAdapter.search ----
    index,                   \* documents of the vector store, in native order
    embedder,                \* "adapter" | "stub"
    hybrid_weight,           \* in units of 1/WeightDen
    query, limit, mode,
    results,                 \* list returned by search
    spc,                     \* "idle" | "call" | "returned" | "raised"
    serr,                    \* exception type when spc = "raised"
    \* ---- a ProgressTracker driven by arbitrary calls ----
    ptracker,                \* the ProgressTracker object
    tcall,                   \* the last call made on it
    tcalls,                  \* history: number of calls made
    tfailed,                 \* history: arguments of the mark_failed calls, in order
    \* ---- SearchEngineAdapter.rerank ----
    rr_query, rr_results,    \* arguments of the call
    rr_out,                  \* list returned by rerank
    rpc,                     \* "off" | "call" | "returned"
    \* ---- SearchEngineAdapter.expand_query ----
    eq_query,                \* argument of the call
    eq_out,                  \* the QueryTerms returned
    epc,                     \* "off" | "call" | "returned" | "raised"
    eerr,                    \* exception type when epc = "raised"
    \* ---- VectorStoreStub under arbitrary calls ----
    _documents,              \* the dict of the store: id -> Document
    vs_call,                 \* the last call made, with what it returned or raised
    vs_calls,                \* history: number of calls made
    vs_added,                \* history: per id, the Document most recently added
                             \* and not deleted or cleared since, else None
    vs_add_raised,           \* history: some add_documents call has raised
    \* ---- search_knowledge and the version check ----
    cache_file,              \* the file at _VERSION_CACHE_PATH
    clock,                   \* the time, in units of _VERSION_CACHE_TTL_HOURS
    _version_checked,        \* the module-level flag
    sk_pc,                   \* per calling thread: its position in search_knowledge
    sk_data,                 \* per calling thread: data of _mark_notification_shown
    sk_out,                  \* per calling thread: what the call returned
    sk_calls,                \* history: number of search_knowledge calls made
    threads,                 \* the _update_version_cache threads started, in order
    first_cache,             \* history: the cache file as the first check found it
    notices,                 \* history: notifications printed since the cache was rewritten
    marked,                  \* history: notification_shown stored since the cache was rewritten
    mark_ran                 \* history: _mark_notification_shown returned since then

ivars == <<docs_list, commit_batch_size, next_doc, pending_chunks,
           total_chunks_committed, tracker, collection, flushes, ipc>>
cvars == <<impl, text, chunk_size, overlap, start, chunks, iterations, cpc, cerr>>
svars == <<index, embedder, hybrid_weight, query, limit, mode, results, spc, serr>>
tvars == <<ptracker, tcall, tcalls, tfailed>>
rvars == <<rr_query, rr_results, rr_out, rpc>>
evars == <<eq_query, eq_out, epc, eerr>>
vvars == <<_documents, vs_call, vs_calls, vs_added, vs_add_raised>>
uvars == <<cache_file, clock, _version_checked, sk_pc, sk_data, sk_out, sk_calls,
           threads, first_cache, notices, marked, mark_ran>>
vars  == <<ivars, cvars, svars, tvars, rvars, evars, vvars, uvars>>

Min(a, b) == IF a < b THEN a ELSE b
Max(a, b) == IF a > b THEN a ELSE b

\* All sequences over S of length 0..n
SeqsUpTo(S, n) == UNION {[1..k -> S] : k \in 0..n}

RECURSIVE SumSeq(_)
SumSeq(s) == IF s = <<>> THEN 0 ELSE Head(s) + SumSeq(Tail(s))

(***************************************************************************)
(* Bounds                                                                  *)
(***************************************************************************)
MaxSources     == 3    \* sources matched by the glob
MaxChunks      == 2    \* chunks one source yields
MaxCommitBatch == 3    \* largest COMMIT_BATCH_SIZE explored

\* ChromaDBAdapter.add_documents writes sub-batches of BATCH_SIZE documents.
\* 5000 in the source; scaled down so that one flush can span sub-batches.
BATCH_SIZE == 2

(***************************************************************************)
(* ProgressTracker (domain/entities.py)                                    *)
(***************************************************************************)
NewTracker(total) ==
    [total_documents     |-> total,
     processed_documents |-> 0,
     failed_documents    |-> 0,
     failed_files        |-> <<>>,
     current_document    |-> "",
     finished            |-> FALSE]

mark_processed(t, filename) ==
    [t EXCEPT !.processed_documents = @ + 1,
              !.current_document = filename]

\* Mutant of mark_failed: the failure is not counted as processed.
mark_failed_NotProcessed(t, filename, error) ==
    [t EXCEPT !.failed_documents = @ + 1,
              !.failed_files = Append(@, <<filename, error>>),
              !.current_document = filename]

mark_failed(t, filename, error) ==
    [t EXCEPT !.processed_documents = @ + 1,
              !.failed_documents = @ + 1,
              !.failed_files = Append(@, <<filename, error>>),
              !.current_document = filename]

finish(t) == [t EXCEPT !.finished = TRUE]

is_complete(t) ==
    t.processed_documents + t.failed_documents >= t.total_documents

success_count(t) == t.processed_documents - t.failed_documents

(***************************************************************************)
(* index_documents                                                         *)
(***************************************************************************)
FileNames == {"a.md", "b.md"}

\* A source: its file name (the same name may occur in two directories) and
\* what process_document does with it: raise (nchunks = -1) or return
\* nchunks Documents.
Sources == [name : FileNames, nchunks : -1..MaxChunks]

\* process_document: Document ids are "<file name>_<chunk index>"; path is
\* the position of the source in docs_list and is kept for the history only.
process_document(path, src) ==
    [k \in 1..src.nchunks |-> [id |-> <<src.name, k - 1>>, path |-> path]]

\* Kinds of outcome of one _embed_and_commit_batch call.
FlushKinds == {"ok", "EmbeddingFailure", "IndexWriteFailure", "IndexConnectionFailure"}

\* Number of _collection.add calls add_documents makes for n documents.
NumSubBatches(n) == (n + BATCH_SIZE - 1) \div BATCH_SIZE

\* The outcomes the environment allows for a flush of n chunks: the embedder
\* raises, or the j-th _collection.add raises after j-1 sub-batches were
\* written, or everything succeeds.
FlushOutcomes(n) ==
    {[kind |-> "ok", written |-> n], [kind |-> "EmbeddingFailure", written |-> 0]}
    \cup {[kind |-> k, written |-> j * BATCH_SIZE] :
            k \in {"IndexWriteFailure", "IndexConnectionFailure"},
            j \in 0..(NumSubBatches(n) - 1)}

\* Mutant of Committed: the except branch reports the chunks already written.
Committed_CountsWritten(chunkseq, outcome) ==
    IF outcome.kind = "ok" THEN Len(chunkseq)
    ELSE IF outcome.kind = "EmbeddingFailure" THEN Len(chunkseq) - 1
    ELSE outcome.written

\* Return value of _embed_and_commit_batch: len(docs_with_embeddings) on
\* success, 0 from the except branch.
Committed(chunkseq, outcome) ==
    IF outcome.kind = "ok" THEN Len(chunkseq) ELSE 0

\* Ids written to the collection by the sub-batches that were added.
WrittenIds(chunkseq, outcome) ==
    {chunkseq[k].id : k \in 1..outcome.written}

FlushRecord(chunkseq, outcome, at) ==
    [size      |-> Len(chunkseq),
     chunkset  |-> {chunkseq[k] : k \in 1..Len(chunkseq)},
     kind      |-> outcome.kind,
     written   |-> outcome.written,
     committed |-> Committed(chunkseq, outcome),
     after     |-> at]

IndexInit ==
    /\ docs_list \in SeqsUpTo(Sources, MaxSources)
    /\ commit_batch_size \in 1..MaxCommitBatch
    /\ next_doc = 0
    /\ pending_chunks = <<>>
    /\ total_chunks_committed = 0
    /\ tracker = NewTracker(0)
    /\ collection = {}
    /\ flushes = <<>>
    /\ ipc = "idle"

\* index_documents up to the loop: empty glob returns at once, otherwise the
\* tracker is created.
StartRun ==
    /\ ipc = "idle"
    /\ IF docs_list = <<>>
       THEN /\ ipc' = "done"
            /\ UNCHANGED tracker
       ELSE /\ ipc' = "loop"
            /\ tracker' = NewTracker(Len(docs_list))
    /\ UNCHANGED <<docs_list, commit_batch_size, next_doc, pending_chunks,
                   total_chunks_committed, collection, flushes>>

\* Mutant of SourceFails: the exception of process_document ends the run.
SourceFails_Aborts ==
    /\ ipc = "loop"
    /\ next_doc < Len(docs_list)
    /\ docs_list[next_doc + 1].nchunks = -1
    /\ ipc' = "done"
    /\ UNCHANGED <<docs_list, commit_batch_size, next_doc, pending_chunks,
                   total_chunks_committed, tracker, collection, flushes>>

\* Mutant of SourceFails: the failing source is marked processed and failed.
SourceFails_MarksBoth ==
    /\ ipc = "loop"
    /\ next_doc < Len(docs_list)
    /\ LET src == docs_list[next_doc + 1] IN
       /\ src.nchunks = -1
       /\ tracker' = mark_failed(mark_processed(tracker, src.name),
                                 src.name, "doc_err")
    /\ next_doc' = next_doc + 1
    /\ UNCHANGED <<docs_list, commit_batch_size, pending_chunks,
                   total_chunks_committed, collection, flushes, ipc>>

\* One loop iteration whose process_document raises: mark_failed, continue.
SourceFails ==
    /\ ipc = "loop"
    /\ next_doc < Len(docs_list)
    /\ LET src == docs_list[next_doc + 1] IN
       /\ src.nchunks = -1
       /\ tracker' = mark_failed([tracker EXCEPT !.current_document = src.name],
                                 src.name, "doc_err")
    /\ next_doc' = next_doc + 1
    /\ UNCHANGED <<docs_list, commit_batch_size, pending_chunks,
                   total_chunks_committed, collection, flushes, ipc>>

\* Mutant of SourceProcessed: the buffer is flushed only once it exceeds the
\* batch size.
SourceProcessed_Late ==
    /\ ipc = "loop"
    /\ next_doc < Len(docs_list)
    /\ LET src == docs_list[next_doc + 1]
           buf == pending_chunks \o process_document(next_doc + 1, src)
       IN
       /\ src.nchunks >= 0
       /\ tracker' = mark_processed([tracker EXCEPT !.current_document = src.name],
                                    src.name)
       /\ IF Len(buf) > commit_batch_size
          THEN \E o \in FlushOutcomes(Len(buf)) :
                 /\ total_chunks_committed' = total_chunks_committed + Committed(buf, o)
                 /\ collection' = collection \cup WrittenIds(buf, o)
                 /\ flushes' = Append(flushes, FlushRecord(buf, o, next_doc + 1))
                 /\ pending_chunks' = <<>>
          ELSE /\ pending_chunks' = buf
               /\ UNCHANGED <<total_chunks_committed, collection, flushes>>
    /\ next_doc' = next_doc + 1
    /\ UNCHANGED <<docs_list, commit_batch_size, ipc>>

\* One loop iteration whose process_document returns: extend the buffer,
\* mark_processed, and flush when the buffer has reached the batch size.
SourceProcessed ==
    /\ ipc = "loop"
    /\ next_doc < Len(docs_list)
    /\ LET src == docs_list[next_doc + 1]
           buf == pending_chunks \o process_document(next_doc + 1, src)
       IN
       /\ src.nchunks >= 0
       /\ tracker' = mark_processed([tracker EXCEPT !.current_document = src.name],
                                    src.name)
       /\ IF Len(buf) >= commit_batch_size
          THEN \E o \in FlushOutcomes(Len(buf)) :
                 /\ total_chunks_committed' = total_chunks_committed + Committed(buf, o)
                 /\ collection' = collection \cup WrittenIds(buf, o)
                 /\ flushes' = Append(flushes, FlushRecord(buf, o, next_doc + 1))
                 /\ pending_chunks' = <<>>
          ELSE /\ pending_chunks' = buf
               /\ UNCHANGED <<total_chunks_committed, collection, flushes>>
    /\ next_doc' = next_doc + 1
    /\ UNCHANGED <<docs_list, commit_batch_size, ipc>>

\* Mutant of FinishRun: the remaining chunks are not committed.
FinishRun_NoRemainder ==
    /\ ipc = "loop"
    /\ next_doc = Len(docs_list)
    /\ tracker' = finish(tracker)
    /\ ipc' = "done"
    /\ UNCHANGED <<docs_list, commit_batch_size, next_doc, pending_chunks,
                   total_chunks_committed, collection, flushes>>

\* After the loop: commit the remaining chunks, tracker.finish().
FinishRun ==
    /\ ipc = "loop"
    /\ next_doc = Len(docs_list)
    /\ IF pending_chunks # <<>>
       THEN \E o \in FlushOutcomes(Len(pending_chunks)) :
              /\ total_chunks_committed' =
                     total_chunks_committed + Committed(pending_chunks, o)
              /\ collection' = collection \cup WrittenIds(pending_chunks, o)
              /\ flushes' = Append(flushes,
                                   FlushRecord(pending_chunks, o, next_doc + 1))
       ELSE UNCHANGED <<total_chunks_committed, collection, flushes>>
    /\ tracker' = finish(tracker)
    /\ ipc' = "done"
    /\ UNCHANGED <<docs_list, commit_batch_size, next_doc, pending_chunks>>

IndexNext ==
    \/ StartRun
    \/ SourceFails
    \/ SourceProcessed
    \/ FinishRun

(***************************************************************************)
(* chunk_text (DocumentProcessorAdapter and DocumentProcessorStub)         *)
(***************************************************************************)
MaxTextLen   == 4    \* characters in the text
MaxChunkSize == 3    \* largest chunk_size explored
MaxOverlap   == 3    \* largest overlap explored

\* A letter, a space, and a whitespace character that is not a space.
Chars == {"a", " ", "\n"}

isspace(c) == c \in {" ", "\n"}

\* Python's slice-index normalisation for a sequence of length n.
PyNorm(i, n) == IF i < 0 THEN Max(i + n, 0) ELSE Min(i, n)

\* t[a:b]
PySlice(t, a, b) ==
    LET lo == PyNorm(a, Len(t))
        hi == PyNorm(b, Len(t))
    IN  IF lo >= hi THEN <<>> ELSE SubSeq(t, lo + 1, hi)

\* t.rfind(" ", a, b): highest 0-based position of a space in t[a:b], else -1
rfind_space(t, a, b) ==
    LET lo == PyNorm(a, Len(t))
        hi == PyNorm(b, Len(t))
        hits == {k \in lo..(hi - 1) : t[k + 1] = " "}
    IN  IF hits = {} THEN -1 ELSE CHOOSE k \in hits : \A j \in hits : j <= k

\* t.strip()
RECURSIVE lstrip(_)
lstrip(t) == IF t # <<>> /\ isspace(Head(t)) THEN lstrip(Tail(t)) ELSE t

RECURSIVE rstrip(_)
rstrip(t) ==
    IF t # <<>> /\ isspace(t[Len(t)]) THEN rstrip(SubSeq(t, 1, Len(t) - 1)) ELSE t

strip(t) == rstrip(lstrip(t))

\* The checks at the top of chunk_text: the exception type raised, or "none".
\* The adapter has none; the stub rejects an empty text and bad parameters.
Precondition(im, t, cs, ov) ==
    IF im = "stub" /\ (t = <<>> \/ cs < 1 \/ ov < 0 \/ ov >= cs)
    THEN "ValueError"
    ELSE "none"

\* Mutant of EndOfChunk: a window without a space to break at is extended
\* to the end of the text.
EndOfChunk_WholeWord(t, cs, s) ==
    LET e0 == Min(s + cs, Len(t)) IN
    IF e0 >= Len(t) THEN [err |-> "none", end |-> e0]
    ELSE IF e0 < 0 - Len(t) THEN [err |-> "IndexError", end |-> e0]
    ELSE LET c  == IF e0 >= 0 THEN t[e0 + 1] ELSE t[e0 + Len(t) + 1]
             sp == rfind_space(t, s, e0)
         IN  IF ~isspace(c) /\ sp > s
             THEN [err |-> "none", end |-> sp]
             ELSE IF ~isspace(c)
             THEN [err |-> "none", end |-> Len(t)]
             ELSE [err |-> "none", end |-> e0]

\* The end position of the chunk that starts at s: min(start + chunk_size,
\* len(text)), moved back to the last space of the window when it falls inside
\* a word.  text[end] with end < -len(text) raises IndexError.
EndOfChunk(t, cs, s) ==
    LET e0 == Min(s + cs, Len(t)) IN
    IF e0 >= Len(t) THEN [err |-> "none", end |-> e0]
    ELSE IF e0 < 0 - Len(t) THEN [err |-> "IndexError", end |-> e0]
    ELSE LET c  == IF e0 >= 0 THEN t[e0 + 1] ELSE t[e0 + Len(t) + 1]
             sp == rfind_space(t, s, e0)
         IN  IF ~isspace(c) /\ sp > s
             THEN [err |-> "none", end |-> sp]
             ELSE [err |-> "none", end |-> e0]

\* The text of the chunk [s, e): the adapter takes the slice as it is, the
\* stub strips it.
ChunkText(im, t, s, e) ==
    IF im = "stub" THEN strip(PySlice(t, s, e)) ELSE PySlice(t, s, e)

\* Chunk.__post_init__: the exception type raised, or "none".
ChunkInvariant(txt, s, e) ==
    IF txt = <<>> \/ s < 0 \/ e <= s THEN "ValueError" ELSE "none"

\* Mutant of NextStart: no forced advance.
NextStart_NoForce(s, e, ov) == e - ov

\* Mutant of NextStart: the next chunk starts one character late.
NextStart_Skips(s, e, ov) ==
    IF e - ov <= s THEN s + 1 ELSE e - ov + 1

\* Mutant of NextStart: the next chunk starts one character early.
NextStart_StepsBack(s, e, ov) ==
    IF e - ov - 1 <= s THEN s + 1 ELSE e - ov - 1

\* Next start position: end - overlap, forced to start + 1 when that does not
\* advance.
NextStart(s, e, ov) ==
    IF e - ov <= s THEN s + 1 ELSE e - ov

ChunkInit ==
    /\ impl \in {"adapter", "stub"}
    /\ text \in SeqsUpTo(Chars, MaxTextLen)
    /\ chunk_size \in (0 - 2)..MaxChunkSize
    /\ overlap \in (0 - 1)..MaxOverlap
    /\ start = 0
    /\ chunks = <<>>
    /\ iterations = 0
    /\ cpc = "idle"
    /\ cerr = "none"

\* chunk_text up to the loop: parameter checks, empty text.
ChunkCall ==
    /\ cpc = "idle"
    /\ LET pre == Precondition(impl, text, chunk_size, overlap) IN
       IF pre # "none"
       THEN cpc' = "raised" /\ cerr' = pre
       ELSE IF text = <<>>
       THEN cpc' = "returned" /\ cerr' = cerr
       ELSE cpc' = "loop" /\ cerr' = cerr
    /\ UNCHANGED <<impl, text, chunk_size, overlap, start, chunks, iterations>>

\* One iteration of the while loop.
ChunkStep ==
    /\ cpc = "loop"
    /\ LET w   == EndOfChunk(text, chunk_size, start)
           txt == ChunkText(impl, text, start, w.end)
           inv == IF txt = <<>> THEN "none" ELSE ChunkInvariant(txt, start, w.end)
           nxt == NextStart(start, w.end, overlap)
       IN
       IF w.err # "none" \/ inv # "none"
       THEN /\ cpc' = "raised"
            /\ cerr' = IF w.err # "none" THEN w.err ELSE inv
            /\ UNCHANGED <<start, chunks>>
       ELSE /\ chunks' = IF txt = <<>> THEN chunks
                         ELSE Append(chunks, [text |-> txt, start_pos |-> start,
                                              end_pos |-> w.end])
            /\ start' = nxt
            /\ cpc' = IF nxt >= Len(text) THEN "returned" ELSE "loop"
            /\ cerr' = cerr
    /\ iterations' = iterations + 1
    /\ UNCHANGED <<impl, text, chunk_size, overlap>>

ChunkNext ==
    \/ ChunkCall
    \/ ChunkStep

(***************************************************************************)
(* SearchEngineAdapter.search                                              *)
(*                                                                         *)
(* Scores are exact rationals over the denominator One.  A document of the *)
(* index carries its distance to the query's embedding (the embedding      *)
(* model and the nearest-neighbour search are opaque), in units of 2/One.  *)
(***************************************************************************)
MaxDocs  == 3    \* documents in the vector store
MaxLimit == 2    \* largest limit explored

WeightDen == 20                      \* hybrid_weight = 0.95 = 19/20
One       == WeightDen * 2           \* score 1.0; content lengths divide it

HybridWeights == {0, 19, 20}         \* hybrid_weight after the constructor's clamp

\* Upper- and lower-case letters for str.lower()
lower_char(c) ==
    CASE c = "A" -> "a"
      [] c = "I" -> "i"
      [] c = "P" -> "p"
      [] OTHER   -> c
lower(t) == [k \in 1..Len(t) |-> lower_char(t[k])]

\* Document contents (non-empty) and queries explored
Contents == {<<"a">>, <<"A", "b">>, <<"b">>}
Queries  == {<<>>, <<"a">>, <<"A", " ", "a">>, <<" ">>}
Distances == {0, One \div 2, One + (One \div 2)}

\* t.split(): the maximal runs of non-whitespace characters
RECURSIVE split(_)
split(t) ==
    LET u == lstrip(t) IN
    IF u = <<>> THEN <<>>
    ELSE LET ends == {k \in 1..Len(u) : isspace(u[k])}
             n    == IF ends = {} THEN Len(u)
                     ELSE (CHOOSE k \in ends : \A j \in ends : k <= j) - 1
         IN  <<SubSeq(u, 1, n)>> \o split(SubSeq(u, n + 1, Len(u)))

\* t.count(term): non-overlapping occurrences, scanning from the left
RECURSIVE count(_, _)
count(t, term) ==
    IF Len(t) < Len(term) THEN 0
    ELSE IF SubSeq(t, 1, Len(term)) = term
         THEN 1 + count(SubSeq(t, Len(term) + 1, Len(t)), term)
         ELSE count(Tail(t), term)

\* list.sort(key=..., reverse=True): stable, descending by key.  The elements
\* are records [item, key] that carry their sort key.
RECURSIVE SortDesc(_)
SortDesc(s) ==
    IF s = <<>> THEN <<>>
    ELSE LET rest == SortDesc(SubSeq(s, 1, Len(s) - 1))
             x    == s[Len(s)]
             pos  == Cardinality({k \in 1..Len(rest) : rest[k].key >= x.key})
         IN  SubSeq(rest, 1, pos) \o <<x>> \o SubSeq(rest, pos + 1, Len(rest))

\* Mutant of Take: the slice keeps the whole list.
Take_All(s, n) == s

\* s[:n]
Take(s, n) == SubSeq(s, 1, PyNorm(n, Len(s)))

\* ChromaDBAdapter.search: similarity = max(0.0, min(1.0, 1.0 - distance / 2.0))
Similarity(dist) == Max(0, Min(One, One - dist))

\* SearchResult.__post_init__: the exception type raised, or "none"
ResultInvariant(r) ==
    IF r.score < 0 \/ r.score > One \/ r.rank < 0 THEN "ValueError" ELSE "none"

\* Rank the pairs <<document, score>> of a list from 0, as SearchResults
Ranked(pairs) ==
    [k \in 1..Len(pairs) |-> [document |-> pairs[k][1], score |-> pairs[k][2],
                             rank |-> k - 1]]

\* The first n elements of a sorted list of [item, key] records as ranked
\* SearchResults: item is the document, key its score.
RankedTop(sorted, n) ==
    Ranked([j \in 1..Len(Take(sorted, n)) |-> <<sorted[j].item, sorted[j].key>>])

\* embed_text: the exception type raised, or "none".  The stub rejects an
\* empty text, SentenceTransformerAdapter encodes whatever it is given.
embed_text(emb, q) ==
    IF emb = "stub" /\ q = <<>> THEN "ValueError" ELSE "none"

\* Mutant of VectorSearch: a search of an empty store raises.
VectorSearch_EmptyRaises(idx, k) ==
    IF k < 1 \/ Len(idx) = 0 THEN [err |-> "ValueError", res |-> <<>>]
    ELSE [err |-> "none",
          res |-> RankedTop(SortDesc([n \in 1..Len(idx) |->
                      [item |-> idx[n], key |-> Similarity(idx[n].dist)]]), k)]

\* The vector store's search: k < 1 is rejected; otherwise the k documents
\* nearest to the query, most similar first.
VectorSearch(idx, k) ==
    IF k < 1 THEN [err |-> "ValueError", res |-> <<>>]
    ELSE [err |-> "none",
          res |-> RankedTop(SortDesc([n \in 1..Len(idx) |->
                      [item |-> idx[n], key |-> Similarity(idx[n].dist)]]), k)]

_semantic_search(emb, idx, q, lim) ==
    IF embed_text(emb, q) # "none"
    THEN [err |-> embed_text(emb, q), res |-> <<>>]
    ELSE VectorSearch(idx, lim)

\* keyword_score of one candidate, before the clamp
KeywordScore(q, content) ==
    LET terms == split(lower(q))
        hits  == SumSeq([k \in 1..Len(terms) |-> count(lower(content), terms[k])])
    IN  (hits * One) \div Max(Len(content), 1)

\* The candidates of _bm25_search with their keyword scores as sort keys
KeywordScored(q, cand) ==
    [n \in 1..Len(cand) |->
        [item |-> cand[n].document, key |-> KeywordScore(q, cand[n].document.content)]]

\* min(1.0, keyword_score) on every result
ClampScores(res) ==
    [j \in 1..Len(res) |-> [res[j] EXCEPT !.score = Min(One, res[j].score)]]

\* Mutant of Bm25Results: the candidates are not sorted by keyword score.
Bm25Results_Unsorted(q, cand, lim) ==
    IF cand.err # "none" THEN cand
    ELSE [err |-> "none",
          res |-> ClampScores(RankedTop(KeywordScored(q, cand.res), lim))]

\* _bm25_search after the candidates are fetched: re-score, sort, cut, clamp
Bm25Results(q, cand, lim) ==
    IF cand.err # "none" THEN cand
    ELSE [err |-> "none",
          res |-> ClampScores(RankedTop(SortDesc(KeywordScored(q, cand.res)), lim))]

_bm25_search(emb, idx, q, lim) ==
    IF Len(idx) = 0 THEN [err |-> "none", res |-> <<>>]
    ELSE IF embed_text(emb, q) # "none"
    THEN [err |-> embed_text(emb, q), res |-> <<>>]
    ELSE Bm25Results(q, VectorSearch(idx, lim * 2), lim)

\* Mutant of DocScores: keyword results the semantic side lacks are dropped.
DocScores_SemanticOnly(sem, kws) ==
    [j \in 1..Len(sem) |->
        [document |-> sem[j].document, semantic |-> sem[j].score,
         keyword |-> IF \E i \in 1..Len(kws) : kws[i].document.id = sem[j].document.id
                     THEN (CHOOSE r \in {kws[i] : i \in 1..Len(kws)} :
                               r.document.id = sem[j].document.id).score
                     ELSE 0]]

\* doc_scores of _hybrid_search as a list in dict insertion order: the
\* semantic results, then the keyword results not among them.
DocScores(sem, kws) ==
    LET kwOf(id) == IF \E j \in 1..Len(kws) : kws[j].document.id = id
                    THEN (CHOOSE r \in {kws[j] : j \in 1..Len(kws)} :
                              r.document.id = id).score
                    ELSE 0
        semIds   == {sem[j].document.id : j \in 1..Len(sem)}
        onlyKw   == SelectSeq(kws, LAMBDA r : r.document.id \notin semIds)
    IN  [j \in 1..Len(sem) |->
            [document |-> sem[j].document, semantic |-> sem[j].score,
             keyword |-> kwOf(sem[j].document.id)]]
        \o [j \in 1..Len(onlyKw) |->
            [document |-> onlyKw[j].document, semantic |-> 0,
             keyword |-> onlyKw[j].score]]

\* hybrid_weight * semantic_score + (1 - hybrid_weight) * keyword_score
HybridScore(w, e) ==
    (w * e.semantic + (WeightDen - w) * e.keyword) \div WeightDen

\* doc_scores with the combined score as sort key
HybridScored(w, ds) ==
    [n \in 1..Len(ds) |-> [item |-> ds[n].document, key |-> HybridScore(w, ds[n])]]

\* _hybrid_search after both result lists are fetched: combine, sort, cut
HybridResults(w, sem, kws, lim) ==
    IF sem.err # "none" THEN sem
    ELSE IF kws.err # "none" THEN kws
    ELSE [err |-> "none",
          res |-> RankedTop(SortDesc(HybridScored(w, DocScores(sem.res, kws.res))), lim)]

_hybrid_search(emb, idx, w, q, lim) ==
    HybridResults(w, _semantic_search(emb, idx, q, lim * 2),
                  _bm25_search(emb, idx, q, lim * 2), lim)

\* The SearchResults of a call are constructed, so each passes __post_init__
Constructed(out) ==
    IF out.err # "none" THEN out
    ELSE IF \E j \in 1..Len(out.res) : ResultInvariant(out.res[j]) # "none"
         THEN [err |-> "ValueError", res |-> <<>>]
         ELSE out

search(emb, idx, w, q, m, lim) ==
    Constructed(IF m = "semantic" THEN _semantic_search(emb, idx, q, lim)
                ELSE IF m = "bm25" THEN _bm25_search(emb, idx, q, lim)
                ELSE _hybrid_search(emb, idx, w, q, lim))

\* The vector stores explored: up to MaxDocs documents with distinct ids.
Indexes ==
    {[k \in 1..Len(f) |-> [id |-> k, content |-> f[k][1], dist |-> f[k][2]]] :
        f \in SeqsUpTo(Contents \X Distances, MaxDocs)}

SearchInit ==
    /\ index \in Indexes
    /\ query \in Queries
    /\ limit \in 0..MaxLimit
    /\ mode \in {"semantic", "bm25", "hybrid"}
    /\ embedder \in IF query = <<>> THEN {"adapter", "stub"} ELSE {"adapter"}
    /\ hybrid_weight \in IF mode = "hybrid" THEN HybridWeights ELSE {19}
    /\ results = <<>>
    /\ spc = "call"
    /\ serr = "none"

\* One call of SearchEngineAdapter.search
Search ==
    /\ spc = "call"
    /\ LET out == search(embedder, index, hybrid_weight, query, mode, limit) IN
       /\ results' = out.res
       /\ serr' = out.err
       /\ spc' = IF out.err = "none" THEN "returned" ELSE "raised"
    /\ UNCHANGED <<index, embedder, hybrid_weight, query, limit, mode>>

SearchNext == Search

(***************************************************************************)
(* A ProgressTracker under arbitrary calls                                 *)
(***************************************************************************)
MaxTotal == 2    \* largest total_documents explored
MaxCalls == 4    \* calls made on one tracker

ErrorMessages == {"unreadable", "unsupported"}

\* ProgressTracker(total_documents) with total_documents >= 0
TrackerInit ==
    /\ ptracker \in {NewTracker(total) : total \in 0..MaxTotal}
    /\ tcall = [op |-> "init", filename |-> "", error |-> ""]
    /\ tcalls = 0
    /\ tfailed = <<>>

MarkProcessed ==
    /\ tcalls < MaxCalls
    /\ \E f \in FileNames :
          /\ ptracker' = mark_processed(ptracker, f)
          /\ tcall' = [op |-> "mark_processed", filename |-> f, error |-> ""]
    /\ tcalls' = tcalls + 1
    /\ UNCHANGED tfailed

MarkFailed ==
    /\ tcalls < MaxCalls
    /\ \E f \in FileNames, e \in ErrorMessages :
          /\ ptracker' = mark_failed(ptracker, f, e)
          /\ tcall' = [op |-> "mark_failed", filename |-> f, error |-> e]
          /\ tfailed' = Append(tfailed, <<f, e>>)
    /\ tcalls' = tcalls + 1

Finish ==
    /\ tcalls < MaxCalls
    /\ ptracker' = finish(ptracker)
    /\ tcall' = [op |-> "finish", filename |-> "", error |-> ""]
    /\ tcalls' = tcalls + 1
    /\ UNCHANGED tfailed

TrackerNext == MarkProcessed \/ MarkFailed \/ Finish

(***************************************************************************)
(* SearchEngineAdapter.rerank                                              *)
(*                                                                         *)
(* Scores are in units of 1/ScoreOne and boosts in percent; the input      *)
(* scores are multiples of 100/ScoreOne, so every product is exact.        *)
(***************************************************************************)
MaxRerank == 2    \* results handed to rerank

ScoreOne == 1000                    \* score 1.0
InputScores == {0, 500, 900}        \* scores of the results handed in

\* metadata.values() of a document, as strings
Metadatas == {<<>>, <<<<"A">>>>, <<<<"b">>, <<"a", "b">>>>}

\* sub in t
Contains(t, sub) ==
    \E i \in 1..(Len(t) - Len(sub) + 1) : SubSeq(t, i, i + Len(sub) - 1) = sub

\* boost of one result, in percent: 1.0, set to 1.2 on a content match,
\* multiplied by 1.1 on a metadata match
Boost(q, doc) ==
    LET content_boost == IF Contains(lower(doc.content), lower(q)) THEN 120 ELSE 100
    IN  IF \E k \in 1..Len(doc.metadata) : Contains(lower(doc.metadata[k]), lower(q))
        THEN (content_boost * 110) \div 100
        ELSE content_boost

\* Mutant of AdjustedScore: the boosted score is not capped at 1.0.
AdjustedScore_NoClamp(q, r) == (r.score * Boost(q, r.document)) \div 100

\* adjusted_score = min(1.0, result.score * boost)
AdjustedScore(q, r) == Min(ScoreOne, (r.score * Boost(q, r.document)) \div 100)

rerank(q, res) ==
    RankedTop(SortDesc([n \in 1..Len(res) |->
                  [item |-> res[n].document, key |-> AdjustedScore(q, res[n])]]),
              Len(res))

\* The result lists handed to rerank: valid SearchResults in any score order
RerankInputs ==
    {[k \in 1..Len(f) |->
        [document |-> [id |-> k, content |-> f[k][1], metadata |-> f[k][2]],
         score |-> f[k][3], rank |-> k - 1]] :
        f \in SeqsUpTo(Contents \X Metadatas \X InputScores, MaxRerank)}

RerankInit ==
    /\ rr_query \in Queries
    /\ rr_results \in RerankInputs
    /\ rr_out = <<>>
    /\ rpc = "call"

\* One call of SearchEngineAdapter.rerank
Rerank ==
    /\ rpc = "call"
    /\ rr_out' = rerank(rr_query, rr_results)
    /\ rpc' = "returned"
    /\ UNCHANGED <<rr_query, rr_results>>

RerankNext == Rerank

(***************************************************************************)
(* SearchEngineAdapter.expand_query                                        *)
(***************************************************************************)
MaxWords == 2    \* words in a query

\* self._expansions, in dict insertion order
_expansions ==
    <<[key |-> <<"p", "y", "t", "h", "o", "n">>,
        synonyms |-> <<<<"p", "y", "t", "h", "o", "n">>,
                      <<"p", "y">>,
                      <<"p", "r", "o", "g", "r", "a", "m", "m", "i", "n", "g">>>>],
       [key |-> <<"m", "l">>,
        synonyms |-> <<<<"m", "a", "c", "h", "i", "n", "e", " ", "l", "e", "a", "r", "n", "i", "n", "g">>,
                      <<"m", "l">>,
                      <<"a", "r", "t", "i", "f", "i", "c", "i", "a", "l", " ", "i", "n", "t", "e", "l", "l", "i", "g", "e", "n", "c", "e">>>>],
       [key |-> <<"a", "i">>,
        synonyms |-> <<<<"a", "r", "t", "i", "f", "i", "c", "i", "a", "l", " ", "i", "n", "t", "e", "l", "l", "i", "g", "e", "n", "c", "e">>,
                      <<"a", "i">>,
                      <<"m", "a", "c", "h", "i", "n", "e", " ", "l", "e", "a", "r", "n", "i", "n", "g">>>>],
       [key |-> <<"a", "p", "i">>,
        synonyms |-> <<<<"a", "p", "i">>,
                      <<"i", "n", "t", "e", "r", "f", "a", "c", "e">>,
                      <<"e", "n", "d", "p", "o", "i", "n", "t">>>>]>>

\* The words queries are made of
Words ==
    {<<"p", "y", "t", "h", "o", "n">>,
     <<"P", "y", "t", "h", "o", "n">>,
     <<"m", "l">>,
     <<"A", "I">>,
     <<"a", "p", "i">>,
     <<"e", "m", "a", "i", "l">>,
     <<"x">>}

\* The words of a list joined by single spaces
RECURSIVE Join(_)
Join(ws) ==
    IF ws = <<>> THEN <<>>
    ELSE IF Len(ws) = 1 THEN ws[1]
    ELSE ws[1] \o <<" ">> \o Join(Tail(ws))

ExpandQueries == {Join(ws) : ws \in SeqsUpTo(Words, MaxWords)}

\* QueryTerms.__post_init__: the exception type raised, or "none"
QueryTermsInvariant(original, expanded) ==
    IF original = <<>> \/ expanded = <<>> THEN "ValueError" ELSE "none"

\* The loop over self._expansions.items() from entry k on
RECURSIVE Extend(_, _, _)
Extend(expanded, query_lower, k) ==
    IF k > Len(_expansions) THEN expanded
    ELSE Extend(IF Contains(query_lower, _expansions[k].key)
                THEN expanded \o SelectSeq(_expansions[k].synonyms,
                                           LAMBDA syn : syn # query_lower)
                ELSE expanded,
                query_lower, k + 1)

\* Remove duplicates while preserving order
RECURSIVE Unique(_)
Unique(terms) ==
    IF terms = <<>> THEN <<>>
    ELSE LET front == Unique(SubSeq(terms, 1, Len(terms) - 1))
             term  == terms[Len(terms)]
         IN  IF \E j \in 1..Len(front) : front[j] = term
             THEN front ELSE Append(front, term)

\* Mutant of expand_query: duplicates are kept.
expand_query_NoDedupe(q) ==
    [err |-> QueryTermsInvariant(q, Extend(<<q>>, lower(q), 1)),
     original |-> q,
     expanded |-> Extend(<<q>>, lower(q), 1)]

expand_query(q) ==
    [err |-> QueryTermsInvariant(q, Unique(Extend(<<q>>, lower(q), 1))),
     original |-> q,
     expanded |-> Unique(Extend(<<q>>, lower(q), 1))]

ExpandInit ==
    /\ eq_query \in ExpandQueries
    /\ eq_out = [original |-> <<>>, expanded |-> <<>>]
    /\ epc = "call"
    /\ eerr = "none"

\* One call of SearchEngineAdapter.expand_query
ExpandQuery ==
    /\ epc = "call"
    /\ LET out == expand_query(eq_query) IN
       /\ eerr' = out.err
       /\ epc' = IF out.err = "none" THEN "returned" ELSE "raised"
       /\ eq_out' = IF out.err = "none"
                    THEN [original |-> out.original, expanded |-> out.expanded]
                    ELSE eq_out
    /\ UNCHANGED eq_query

ExpandNext == ExpandQuery

(***************************************************************************)
(* VectorStoreStub: add_documents, get_by_id, delete, get_stats, clear     *)
(***************************************************************************)
MaxStoreCalls == 3    \* calls made on one store
MaxAdd        == 2    \* documents handed to one add_documents call

DocIds == {"d1", "d2"}

\* The Documents handed to the store: an embedding may be missing
StoreDocs ==
    [id : DocIds, content : {"x", "y"}, has_embedding : {TRUE}]
        \cup [id : DocIds, content : {"x"}, has_embedding : {FALSE}]

\* Python's None where a Document is expected
None == [id |-> "", content |-> "", has_embedding |-> FALSE]

\* self._documents[doc.id] = doc
SetItem(d, doc) ==
    [x \in DOMAIN d \cup {doc.id} |-> IF x = doc.id THEN doc ELSE d[x]]

\* Mutant of add_documents: an id already stored keeps its first Document.
RECURSIVE add_documents_KeepFirst(_, _)
add_documents_KeepFirst(d, docs) ==
    IF docs = <<>> THEN [err |-> "none", documents |-> d]
    ELSE IF ~Head(docs).has_embedding THEN [err |-> "ValueError", documents |-> d]
    ELSE add_documents_KeepFirst(IF Head(docs).id \in DOMAIN d THEN d
                                 ELSE SetItem(d, Head(docs)), Tail(docs))

\* add_documents: the documents are stored one by one; the first one without
\* an embedding raises ValueError and ends the loop.
RECURSIVE add_documents(_, _)
add_documents(d, docs) ==
    IF docs = <<>> THEN [err |-> "none", documents |-> d]
    ELSE IF ~Head(docs).has_embedding THEN [err |-> "ValueError", documents |-> d]
    ELSE add_documents(SetItem(d, Head(docs)), Tail(docs))

\* self._documents.get(doc_id)
get_by_id(d, doc_id) == IF doc_id \in DOMAIN d THEN d[doc_id] ELSE None

\* del self._documents[doc_id]
DelItem(d, doc_id) == [x \in DOMAIN d \ {doc_id} |-> d[x]]

\* get_stats()["document_count"]
document_count(d) == Cardinality(DOMAIN d)

\* The Document with this id that comes last in a list, None without one
LastWithId(docs, id) ==
    IF \E k \in 1..Len(docs) : docs[k].id = id
    THEN docs[CHOOSE k \in 1..Len(docs) :
                 /\ docs[k].id = id
                 /\ \A j \in (k + 1)..Len(docs) : docs[j].id # id]
    ELSE None

StoreInit ==
    /\ _documents = <<>>
    /\ vs_call = [op |-> "init", id |-> "", docs |-> <<>>, ret |-> FALSE,
                  err |-> "none"]
    /\ vs_calls = 0
    /\ vs_added = [id \in DocIds |-> None]
    /\ vs_add_raised = FALSE

AddDocuments ==
    /\ vs_calls < MaxStoreCalls
    /\ \E docs \in SeqsUpTo(StoreDocs, MaxAdd) :
          LET out == add_documents(_documents, docs) IN
          /\ _documents' = out.documents
          /\ vs_call' = [op |-> "add_documents", id |-> "", docs |-> docs,
                         ret |-> FALSE, err |-> out.err]
          /\ vs_added' = IF out.err # "none" THEN vs_added
                         ELSE [id \in DocIds |->
                                  IF LastWithId(docs, id) # None
                                  THEN LastWithId(docs, id) ELSE vs_added[id]]
          /\ vs_add_raised' = (vs_add_raised \/ out.err # "none")
    /\ vs_calls' = vs_calls + 1

Delete ==
    /\ vs_calls < MaxStoreCalls
    /\ \E doc_id \in DocIds :
          /\ _documents' = IF doc_id \in DOMAIN _documents
                           THEN DelItem(_documents, doc_id) ELSE _documents
          /\ vs_call' = [op |-> "delete", id |-> doc_id, docs |-> <<>>,
                         ret |-> (doc_id \in DOMAIN _documents), err |-> "none"]
          /\ vs_added' = [vs_added EXCEPT ![doc_id] = None]
    /\ vs_calls' = vs_calls + 1
    /\ UNCHANGED vs_add_raised

Clear ==
    /\ vs_calls < MaxStoreCalls
    /\ _documents' = <<>>
    /\ vs_call' = [op |-> "clear", id |-> "", docs |-> <<>>, ret |-> FALSE,
                   err |-> "none"]
    /\ vs_added' = [id \in DocIds |-> None]
    /\ vs_add_raised' = FALSE
    /\ vs_calls' = vs_calls + 1

StoreNext == AddDocuments \/ Delete \/ Clear

(***************************************************************************)
(* search_knowledge and the version check (skill_helpers.py)               *)
(*                                                                         *)
(* Several threads call search_knowledge; each _update_version_cache       *)
(* thread runs beside them.  A statement that reads or writes the module   *)
(* flag or the cache file is one step; opening the file for writing        *)
(* truncates it, and json.dump fills it in a later step.                   *)
(***************************************************************************)
MaxCallers     == 2    \* threads calling search_knowledge
MaxSearchCalls == 2    \* search_knowledge calls made in the process
MaxClock       == 1    \* the time explored

\* 24 in the source; the clock counts in units of the TTL.
_VERSION_CACHE_TTL_HOURS == 1

Callers == 1..MaxCallers

\* Contents of the cache file: missing, not a JSON object with a checked_at
\* ("corrupt", which an empty file is), or the object written by
\* _update_version_cache.
CacheData(at, ua, ns) ==
    [state |-> "ok", checked_at |-> at, update_available |-> ua,
     notification_shown |-> ns]

MissingFile == [state |-> "missing", checked_at |-> 0, update_available |-> FALSE,
                notification_shown |-> FALSE]

CorruptFile == [MissingFile EXCEPT !.state = "corrupt"]

\* Python's None where the cache dict is expected
NoCache == [MissingFile EXCEPT !.state = "none"]

\* _check_version_cache: the dict, or None for a file that is missing,
\* unreadable (every exception is caught) or older than the TTL.
_check_version_cache(f, now) ==
    IF f.state # "ok" THEN NoCache
    ELSE IF now - f.checked_at > _VERSION_CACHE_TTL_HOURS THEN NoCache
    ELSE f

\* _should_notify_update: the first component of the pair it returns.
_should_notify_update(f, now) ==
    LET cache == _check_version_cache(f, now) IN
    /\ cache.state # "none"
    /\ cache.update_available
    /\ ~cache.notification_shown

\* What the first check found at _VERSION_CACHE_PATH.
Classify(f, now) ==
    IF f.state # "ok" THEN f.state
    ELSE IF now - f.checked_at > _VERSION_CACHE_TTL_HOURS THEN "stale"
    ELSE "fresh"

VersionInit ==
    /\ cache_file \in {MissingFile, CorruptFile}
          \cup {CacheData(at, ua, ns) :
                  at \in {0 - 2, 0 - 1}, ua \in BOOLEAN, ns \in BOOLEAN}
    /\ clock = 0
    /\ _version_checked = FALSE
    /\ sk_pc = [c \in Callers |-> "idle"]
    /\ sk_data = [c \in Callers |-> NoCache]
    /\ sk_out = [c \in Callers |-> ""]
    /\ sk_calls = 0
    /\ threads = <<>>
    /\ first_cache = "unread"
    /\ notices = IF cache_file.notification_shown THEN 1 ELSE 0
    /\ marked = cache_file.notification_shown
    /\ mark_ran = cache_file.notification_shown

\* Time passes.
Tick ==
    /\ clock < MaxClock
    /\ clock' = clock + 1
    /\ UNCHANGED <<cache_file, _version_checked, sk_pc, sk_data, sk_out, sk_calls,
                   threads, first_cache, notices, marked, mark_ran>>

\* A thread calls search_knowledge.
SkCall(c) ==
    /\ sk_pc[c] \in {"idle", "returned"}
    /\ sk_calls < MaxSearchCalls
    /\ sk_calls' = sk_calls + 1
    /\ sk_pc' = [sk_pc EXCEPT ![c] = "test"]
    /\ sk_out' = [sk_out EXCEPT ![c] = ""]
    /\ UNCHANGED <<cache_file, clock, _version_checked, sk_data, threads,
                   first_cache, notices, marked, mark_ran>>

\* if not _version_checked:
SkTest(c) ==
    /\ sk_pc[c] = "test"
    /\ sk_pc' = [sk_pc EXCEPT ![c] = IF _version_checked THEN "search" ELSE "set"]
    /\ UNCHANGED <<cache_file, clock, _version_checked, sk_data, sk_out, sk_calls,
                   threads, first_cache, notices, marked, mark_ran>>

\* _version_checked = True
SkSet(c) ==
    /\ sk_pc[c] = "set"
    /\ _version_checked' = TRUE
    /\ sk_pc' = [sk_pc EXCEPT ![c] = "check"]
    /\ UNCHANGED <<cache_file, clock, sk_data, sk_out, sk_calls, threads,
                   first_cache, notices, marked, mark_ran>>

\* cache = _check_version_cache(); without a cache the daemon thread running
\* _update_version_cache is created and started.
SkCheck(c) ==
    /\ sk_pc[c] = "check"
    /\ threads' = IF _check_version_cache(cache_file, clock) = NoCache
                  THEN Append(threads, [pc |-> "gh", checked_at |-> 0,
                                        update_available |-> FALSE])
                  ELSE threads
    /\ first_cache' = IF first_cache = "unread" THEN Classify(cache_file, clock)
                      ELSE first_cache
    /\ sk_pc' = [sk_pc EXCEPT ![c] = "search"]
    /\ UNCHANGED <<cache_file, clock, _version_checked, sk_data, sk_out, sk_calls,
                   notices, marked, mark_ran>>

\* Mutant of SkSearch: the call waits for the version-check threads.
SkSearch_Joins(c) ==
    /\ sk_pc[c] = "search"
    /\ \A t \in 1..Len(threads) : threads[t].pc = "done"
    /\ \E found \in BOOLEAN :
          IF found
          THEN /\ sk_out' = [sk_out EXCEPT ![c] = "results"]
               /\ sk_pc' = [sk_pc EXCEPT ![c] = "notify"]
          ELSE /\ sk_out' = [sk_out EXCEPT ![c] = "no results"]
               /\ sk_pc' = [sk_pc EXCEPT ![c] = "returned"]
    /\ UNCHANGED <<cache_file, clock, _version_checked, sk_data, sk_calls, threads,
                   first_cache, notices, marked, mark_ran>>

\* The search and the formatting of its results; without results the call
\* returns before the notification.
SkSearch(c) ==
    /\ sk_pc[c] = "search"
    /\ \E found \in BOOLEAN :
          IF found
          THEN /\ sk_out' = [sk_out EXCEPT ![c] = "results"]
               /\ sk_pc' = [sk_pc EXCEPT ![c] = "notify"]
          ELSE /\ sk_out' = [sk_out EXCEPT ![c] = "no results"]
               /\ sk_pc' = [sk_pc EXCEPT ![c] = "returned"]
    /\ UNCHANGED <<cache_file, clock, _version_checked, sk_data, sk_calls, threads,
                   first_cache, notices, marked, mark_ran>>

\* should_notify, latest = _should_notify_update(); the notification is
\* printed when it says so.
SkNotify(c) ==
    /\ sk_pc[c] = "notify"
    /\ IF _should_notify_update(cache_file, clock)
       THEN /\ sk_out' = [sk_out EXCEPT ![c] = "results+notice"]
            /\ notices' = notices + 1
            /\ sk_pc' = [sk_pc EXCEPT ![c] = "mark"]
       ELSE /\ sk_pc' = [sk_pc EXCEPT ![c] = "returned"]
            /\ UNCHANGED <<sk_out, notices>>
    /\ UNCHANGED <<cache_file, clock, _version_checked, sk_data, sk_calls, threads,
                   first_cache, marked, mark_ran>>

\* _mark_notification_shown up to data["notification_shown"] = True: a missing
\* file returns, a file json.load cannot read raises into "except: pass".
SkMarkRead(c) ==
    /\ sk_pc[c] = "mark"
    /\ IF cache_file.state = "ok"
       THEN /\ sk_data' = [sk_data EXCEPT
                              ![c] = [cache_file EXCEPT !.notification_shown = TRUE]]
            /\ sk_pc' = [sk_pc EXCEPT ![c] = "mark_open"]
            /\ UNCHANGED mark_ran
       ELSE /\ sk_pc' = [sk_pc EXCEPT ![c] = "returned"]
            /\ mark_ran' = TRUE
            /\ UNCHANGED sk_data
    /\ UNCHANGED <<cache_file, clock, _version_checked, sk_out, sk_calls, threads,
                   first_cache, notices, marked>>

\* open(_VERSION_CACHE_PATH, "w"): the file is truncated, or the open raises
\* OSError into "except: pass".
SkMarkOpen(c) ==
    /\ sk_pc[c] = "mark_open"
    /\ \E opened \in BOOLEAN :
          IF opened
          THEN /\ cache_file' = CorruptFile
               /\ sk_pc' = [sk_pc EXCEPT ![c] = "mark_dump"]
               /\ UNCHANGED mark_ran
          ELSE /\ sk_pc' = [sk_pc EXCEPT ![c] = "returned"]
               /\ mark_ran' = TRUE
               /\ UNCHANGED cache_file
    /\ UNCHANGED <<clock, _version_checked, sk_data, sk_out, sk_calls, threads,
                   first_cache, notices, marked>>

\* json.dump(data, f): the data read before, with notification_shown set.
SkMarkDump(c) ==
    /\ sk_pc[c] = "mark_dump"
    /\ cache_file' = sk_data[c]
    /\ marked' = TRUE
    /\ mark_ran' = TRUE
    /\ sk_pc' = [sk_pc EXCEPT ![c] = "returned"]
    /\ UNCHANGED <<clock, _version_checked, sk_data, sk_out, sk_calls, threads,
                   first_cache, notices>>

\* The steps of one search_knowledge call after it was made.
SkStep(c) ==
    \/ SkTest(c)
    \/ SkSet(c)
    \/ SkCheck(c)
    \/ SkSearch(c)
    \/ SkNotify(c)
    \/ SkMarkRead(c)
    \/ SkMarkOpen(c)
    \/ SkMarkDump(c)

\* _update_version_cache, the gh subprocess: it fails, times out or prints
\* nothing (the thread ends), or it prints the latest tag and cache_data is
\* built with the current time.
UpdGh(t) ==
    /\ threads[t].pc = "gh"
    /\ \E r \in {"fail", "same", "newer"} :
          threads' = [threads EXCEPT ![t] =
                         IF r = "fail" THEN [@ EXCEPT !.pc = "done"]
                         ELSE [pc |-> "open", checked_at |-> clock,
                               update_available |-> (r = "newer")]]
    /\ UNCHANGED <<cache_file, clock, _version_checked, sk_pc, sk_data, sk_out,
                   sk_calls, first_cache, notices, marked, mark_ran>>

\* _update_version_cache, mkdir and open(_VERSION_CACHE_PATH, "w"): the file
\* is truncated, or OSError is caught and the thread ends.
UpdOpen(t) ==
    /\ threads[t].pc = "open"
    /\ \E opened \in BOOLEAN :
          IF opened
          THEN /\ cache_file' = CorruptFile
               /\ threads' = [threads EXCEPT ![t].pc = "dump"]
          ELSE /\ threads' = [threads EXCEPT ![t].pc = "done"]
               /\ UNCHANGED cache_file
    /\ UNCHANGED <<clock, _version_checked, sk_pc, sk_data, sk_out, sk_calls,
                   first_cache, notices, marked, mark_ran>>

\* _update_version_cache, json.dump(cache_data, f): a new cache cycle.
UpdDump(t) ==
    /\ threads[t].pc = "dump"
    /\ cache_file' = CacheData(threads[t].checked_at, threads[t].update_available,
                               FALSE)
    /\ threads' = [threads EXCEPT ![t].pc = "done"]
    /\ notices' = 0
    /\ marked' = FALSE
    /\ mark_ran' = FALSE
    /\ UNCHANGED <<clock, _version_checked, sk_pc, sk_data, sk_out, sk_calls,
                   first_cache>>

VersionNext ==
    \/ Tick
    \/ \E c \in Callers : SkCall(c)
    \/ \E c \in Callers : SkStep(c)
    \/ \E t \in 1..Len(threads) : UpdGh(t)
    \/ \E t \in 1..Len(threads) : UpdOpen(t)
    \/ \E t \in 1..Len(threads) : UpdDump(t)

(***************************************************************************)
(* Specifications                                                          *)
(***************************************************************************)
IndexIdle ==
    /\ docs_list = <<>>
    /\ commit_batch_size = 1
    /\ next_doc = 0
    /\ pending_chunks = <<>>
    /\ total_chunks_committed = 0
    /\ tracker = NewTracker(0)
    /\ collection = {}
    /\ flushes = <<>>
    /\ ipc = "off"

ChunkIdle ==
    /\ impl = "adapter"
    /\ text = <<>>
    /\ chunk_size = 1
    /\ overlap = 0
    /\ start = 0
    /\ chunks = <<>>
    /\ iterations = 0
    /\ cpc = "off"
    /\ cerr = "none"

SearchIdle ==
    /\ index = <<>>
    /\ embedder = "adapter"
    /\ hybrid_weight = 19
    /\ query = <<>>
    /\ limit = 1
    /\ mode = "hybrid"
    /\ results = <<>>
    /\ spc = "off"
    /\ serr = "none"

TrackerIdle ==
    /\ ptracker = NewTracker(0)
    /\ tcall = [op |-> "off", filename |-> "", error |-> ""]
    /\ tcalls = 0
    /\ tfailed = <<>>

RerankIdle ==
    /\ rr_query = <<>>
    /\ rr_results = <<>>
    /\ rr_out = <<>>
    /\ rpc = "off"

ExpandIdle ==
    /\ eq_query = <<>>
    /\ eq_out = [original |-> <<>>, expanded |-> <<>>]
    /\ epc = "off"
    /\ eerr = "none"

StoreIdle ==
    /\ _documents = <<>>
    /\ vs_call = [op |-> "off", id |-> "", docs |-> <<>>, ret |-> FALSE,
                  err |-> "none"]
    /\ vs_calls = 0
    /\ vs_added = [id \in DocIds |-> None]
    /\ vs_add_raised = FALSE

VersionIdle ==
    /\ cache_file = MissingFile
    /\ clock = 0
    /\ _version_checked = FALSE
    /\ sk_pc = [c \in Callers |-> "off"]
    /\ sk_data = [c \in Callers |-> NoCache]
    /\ sk_out = [c \in Callers |-> ""]
    /\ sk_calls = 0
    /\ threads = <<>>
    /\ first_cache = "unread"
    /\ notices = 0
    /\ marked = FALSE
    /\ mark_ran = FALSE

InitIndex ==
    IndexInit /\ ChunkIdle /\ SearchIdle /\ TrackerIdle /\ RerankIdle /\
    ExpandIdle /\ StoreIdle /\ VersionIdle
NextIndex ==
    IndexNext /\
    UNCHANGED <<cvars, svars, tvars, rvars, evars, vvars, uvars>>
SpecIndex == InitIndex /\ [][NextIndex]_vars

InitChunk ==
    ChunkInit /\ IndexIdle /\ SearchIdle /\ TrackerIdle /\ RerankIdle /\
    ExpandIdle /\ StoreIdle /\ VersionIdle
NextChunk ==
    ChunkNext /\
    UNCHANGED <<ivars, svars, tvars, rvars, evars, vvars, uvars>>
SpecChunk == InitChunk /\ [][NextChunk]_vars
\* The loop of chunk_text runs to its end: nothing else is scheduled.
FairSpecChunk == SpecChunk /\ WF_vars(NextChunk)

InitSearch ==
    SearchInit /\ IndexIdle /\ ChunkIdle /\ TrackerIdle /\ RerankIdle /\
    ExpandIdle /\ StoreIdle /\ VersionIdle
NextSearch ==
    SearchNext /\
    UNCHANGED <<ivars, cvars, tvars, rvars, evars, vvars, uvars>>
SpecSearch == InitSearch /\ [][NextSearch]_vars

InitTracker ==
    TrackerInit /\ IndexIdle /\ ChunkIdle /\ SearchIdle /\ RerankIdle /\
    ExpandIdle /\ StoreIdle /\ VersionIdle
NextTracker ==
    TrackerNext /\
    UNCHANGED <<ivars, cvars, svars, rvars, evars, vvars, uvars>>
SpecTracker == InitTracker /\ [][NextTracker]_vars

InitRerank ==
    RerankInit /\ IndexIdle /\ ChunkIdle /\ SearchIdle /\ TrackerIdle /\
    ExpandIdle /\ StoreIdle /\ VersionIdle
NextRerank ==
    RerankNext /\
    UNCHANGED <<ivars, cvars, svars, tvars, evars, vvars, uvars>>
SpecRerank == InitRerank /\ [][NextRerank]_vars

InitExpand ==
    ExpandInit /\ IndexIdle /\ ChunkIdle /\ SearchIdle /\ TrackerIdle /\
    RerankIdle /\ StoreIdle /\ VersionIdle
NextExpand ==
    ExpandNext /\
    UNCHANGED <<ivars, cvars, svars, tvars, rvars, vvars, uvars>>
SpecExpand == InitExpand /\ [][NextExpand]_vars

InitStore ==
    StoreInit /\ IndexIdle /\ ChunkIdle /\ SearchIdle /\ TrackerIdle /\
    RerankIdle /\ ExpandIdle /\ VersionIdle
NextStore ==
    StoreNext /\
    UNCHANGED <<ivars, cvars, svars, tvars, rvars, evars, uvars>>
SpecStore == InitStore /\ [][NextStore]_vars

InitVersion ==
    VersionInit /\ IndexIdle /\ ChunkIdle /\ SearchIdle /\ TrackerIdle /\
    RerankIdle /\ ExpandIdle /\ StoreIdle
NextVersion ==
    VersionNext /\
    UNCHANGED <<ivars, cvars, svars, tvars, rvars, evars, vvars>>
SpecVersion == InitVersion /\ [][NextVersion]_vars
\* The calling threads are scheduled; nothing is assumed of the
\* _update_version_cache threads, which may stall or never run.
SkRun(c) ==
    SkStep(c) /\
    UNCHANGED <<ivars, cvars, svars, tvars, rvars, evars, vvars>>
FairSpecVersion == SpecVersion /\ \A c \in Callers : WF_vars(SkRun(c))

(***************************************************************************)
(* Properties of index_documents (SpecIndex)                               *)
(***************************************************************************)
FailingSources == {k \in 1..Len(docs_list) : docs_list[k].nchunks = -1}
GoodSources    == {k \in 1..Len(docs_list) : docs_list[k].nchunks >= 0}

\* The chunks process_document generates for the sources that do not fail
GeneratedChunks ==
    UNION {{process_document(k, docs_list[k])[j] : j \in 1..docs_list[k].nchunks} :
            k \in GoodSources}

ChunksGenerated ==
    SumSeq([k \in 1..Len(docs_list) |-> Max(docs_list[k].nchunks, 0)])

FlushedChunks == UNION {flushes[k].chunkset : k \in 1..Len(flushes)}

AllFlushesOk == \A k \in 1..Len(flushes) : flushes[k].kind = "ok"

RunEnded == ipc = "done" /\ docs_list # <<>>

\* C1: partial failure isolation.  A run over N sources of which k fail ends
\* with every source handled, failed_documents = k and the failed names
\* recorded in order; every chunk of the other sources was handed to a flush,
\* and when the flushes succeed those chunks are committed and stored.
C1_PartialFailureIsolation ==
    RunEnded =>
        /\ tracker.finished
        /\ tracker.processed_documents = Len(docs_list)
        /\ tracker.failed_documents = Cardinality(FailingSources)
        /\ Len(tracker.failed_files) = Cardinality(FailingSources)
        /\ FlushedChunks = GeneratedChunks
        /\ AllFlushesOk =>
              /\ total_chunks_committed = ChunksGenerated
              /\ \A c \in GeneratedChunks : c.id \in collection

C1_Witness ==
    /\ RunEnded
    /\ AllFlushesOk
    /\ Cardinality(FailingSources) = 1
    /\ Len(docs_list) = 3
    /\ docs_list[2].nchunks = -1
    /\ docs_list[1].nchunks > 0
    /\ docs_list[3].nchunks > 0
    /\ total_chunks_committed = docs_list[1].nchunks + docs_list[3].nchunks

\* C2: batching conservation.  With no failing source and no failing flush,
\* total_chunks_committed at the end of the run is the sum of the chunks
\* generated per source, for every commit batch size.
C2_BatchingConservation ==
    (RunEnded /\ FailingSources = {} /\ AllFlushesOk)
        => total_chunks_committed = ChunksGenerated

C2_Witness ==
    /\ RunEnded
    /\ FailingSources = {}
    /\ AllFlushesOk
    /\ \E k \in 1..Len(docs_list) : docs_list[k].nchunks = 0
    /\ Len(flushes) >= 2
    /\ flushes[Len(flushes)].size < commit_batch_size
    /\ total_chunks_committed = ChunksGenerated

\* C3: a failed flush.  A flush whose embed or add call raises adds 0 to
\* total_chunks_committed; its chunks are dropped (no later flush and no later
\* buffer holds them); the run goes on: every source is handled and every
\* generated chunk is handed to a flush, the remainder flush included.
C3_FailedFlush ==
    /\ \A k \in 1..Len(flushes) :
          flushes[k].kind # "ok" => flushes[k].committed = 0
    /\ total_chunks_committed =
          SumSeq([k \in 1..Len(flushes) |-> flushes[k].committed])
    /\ \A j, k \in 1..Len(flushes) :
          j < k => flushes[j].chunkset \cap flushes[k].chunkset = {}
    /\ ipc = "loop" =>
          \A k \in 1..Len(flushes), n \in 1..Len(pending_chunks) :
              pending_chunks[n] \notin flushes[k].chunkset
    /\ RunEnded =>
          /\ tracker.processed_documents = Len(docs_list)
          /\ FlushedChunks = GeneratedChunks

C3_Witness ==
    /\ RunEnded
    /\ Len(flushes) = 2
    /\ flushes[1].kind \in {"EmbeddingFailure", "IndexWriteFailure"}
    /\ flushes[1].after < Len(docs_list)
    /\ flushes[2].kind = "ok"
    /\ flushes[2].after = Len(docs_list) + 1
    /\ total_chunks_committed = flushes[2].size

\* C4: flush atomicity.  After every flush either all its chunks were written
\* to the index and it counts len(buffer), or none was written and it counts 0.
C4_FlushAtomicity ==
    \A k \in 1..Len(flushes) :
        \/ flushes[k].written = flushes[k].size /\ flushes[k].committed = flushes[k].size
        \/ flushes[k].written = 0 /\ flushes[k].committed = 0

\* C5: a connection-level failure of the index during a flush is fatal: the
\* run does not complete normally after it and no flush follows it.
C5_ConnectionFailureIsFatal ==
    \A k \in 1..Len(flushes) :
        flushes[k].kind = "IndexConnectionFailure" =>
            /\ k = Len(flushes)
            /\ ipc # "done"

\* C22: tracker marks.  Every loop iteration handles one source and marks it
\* once: processed_documents rises by one, failed_documents rises by one
\* exactly when process_document raised, and no other step of the loop
\* touches the counters.  finish() is called in the step that leaves the
\* loop, with every source handled and every generated chunk handed to a
\* flush, and processed_documents = total_documents there.
C22_MarkStep ==
    /\ next_doc' = next_doc + 1 =>
          /\ tracker'.processed_documents = tracker.processed_documents + 1
          /\ tracker'.failed_documents =
                 tracker.failed_documents +
                 (IF docs_list[next_doc + 1].nchunks = -1 THEN 1 ELSE 0)
          /\ tracker'.current_document = docs_list[next_doc + 1].name
          /\ ~tracker'.finished
    /\ (next_doc' = next_doc /\ ipc = "loop") =>
          /\ tracker'.processed_documents = tracker.processed_documents
          /\ tracker'.failed_documents = tracker.failed_documents
    /\ (tracker'.finished /\ ~tracker.finished) =>
          /\ ipc = "loop" /\ ipc' = "done"
          /\ next_doc = Len(docs_list)
          /\ UNION {flushes'[k].chunkset : k \in 1..Len(flushes')} = GeneratedChunks
          /\ tracker'.processed_documents = tracker'.total_documents
    /\ tracker.finished => (tracker' = tracker /\ ipc' = "done")

C22_TrackerMarks ==
    /\ [][C22_MarkStep]_vars
    /\ [](ipc = "loop" => (tracker.processed_documents = next_doc /\ ~tracker.finished))
    /\ [](RunEnded => (tracker.finished /\
                        tracker.processed_documents = tracker.total_documents))

C22_Witness ==
    /\ RunEnded
    /\ Len(docs_list) = 3
    /\ docs_list[1].nchunks = -1
    /\ docs_list[2].nchunks = 1
    /\ docs_list[3].nchunks = 1
    /\ commit_batch_size = 3
    /\ Len(flushes) = 1
    /\ flushes[1].after = 4
    /\ tracker.finished
    /\ tracker.processed_documents = 3
    /\ tracker.failed_documents = 1

\* C23: flush trigger.  A loop iteration whose source was processed flushes
\* exactly when the extended buffer holds at least commit_batch_size chunks,
\* flushes the whole buffer and leaves it empty; an iteration whose source
\* failed flushes nothing.  So the buffer holds fewer than commit_batch_size
\* chunks at the start of every iteration, and no flush has size 0.
C23_FlushStep ==
    next_doc' = next_doc + 1 =>
        LET src == docs_list[next_doc + 1]
            buf == pending_chunks \o process_document(next_doc + 1, src)
        IN  IF src.nchunks >= 0 /\ Len(buf) >= commit_batch_size
            THEN /\ Len(flushes') = Len(flushes) + 1
                 /\ flushes'[Len(flushes')].size = Len(buf)
                 /\ flushes'[Len(flushes')].chunkset = {buf[k] : k \in 1..Len(buf)}
                 /\ pending_chunks' = <<>>
            ELSE /\ flushes' = flushes
                 /\ pending_chunks' = buf

C23_FlushTrigger ==
    /\ [][C23_FlushStep]_vars
    /\ [](ipc = "loop" => Len(pending_chunks) < commit_batch_size)
    /\ [](\A k \in 1..Len(flushes) :
            /\ flushes[k].size >= 1
            /\ flushes[k].after <= Len(docs_list) =>
                  flushes[k].size >= commit_batch_size)

C23_Witness ==
    /\ ipc = "loop"
    /\ commit_batch_size = 2
    /\ next_doc = 2
    /\ Len(docs_list) = 3
    /\ docs_list[1].nchunks = 1
    /\ docs_list[2].nchunks = 2
    /\ Len(flushes) = 1
    /\ flushes[1].size = 3
    /\ flushes[1].after = 2
    /\ pending_chunks = <<>>

\* C24: during the loop tracker.is_complete is true exactly when every
\* source has been handled.
C24_CompleteOnlyWhenAllHandled ==
    (ipc = "loop" /\ docs_list # <<>>) =>
        (is_complete(tracker) <=> next_doc = Len(docs_list))

\* C25: the ids of the chunks generated in one run are pairwise distinct, so
\* after a run without failing source or failing flush into an empty index
\* the index holds total_chunks_committed documents.
C25_DistinctIds ==
    (RunEnded /\ FailingSources = {} /\ AllFlushesOk) =>
        /\ \A c, d \in GeneratedChunks : c.id = d.id => c = d
        /\ Cardinality(collection) = total_chunks_committed

(***************************************************************************)
(* Properties of SearchEngineAdapter.search (SpecSearch)                   *)
(***************************************************************************)
\* C6: score bounds.  In every mode the returned list has every score in
\* [0, 1], scores non-increasing along the list, and rank equal to the
\* 0-based list index.
C6_ScoreBounds ==
    spc = "returned" =>
        /\ \A k \in 1..Len(results) :
              /\ results[k].score >= 0
              /\ results[k].score <= One
              /\ results[k].rank = k - 1
        /\ \A k \in 1..(Len(results) - 1) :
              results[k].score >= results[k + 1].score

C6_Witness ==
    /\ spc = "returned"
    /\ mode = "bm25"
    /\ Len(results) = 2
    /\ results[1].score > results[2].score
    /\ results[1].document.id > results[2].document.id
    /\ results[2].score > 0

\* C7: search-time errors propagate.  A search with an empty query or with
\* limit <= 0 raises (ValueError), in every mode and whatever the index
\* holds; it never returns a list.
C7_SearchErrorsPropagate ==
    (spc # "call" /\ (query = <<>> \/ limit <= 0)) =>
        /\ spc = "raised"
        /\ serr = "ValueError"

\* The two result lists _hybrid_search fuses, each computed for 2 * limit
SemanticSide == _semantic_search(embedder, index, query, limit * 2).res
KeywordSide  == _bm25_search(embedder, index, query, limit * 2).res

SideIds(side) == {side[j].document.id : j \in 1..Len(side)}

\* The score a document id has on one side, 0 when the side lacks it
SideScore(side, id) ==
    IF id \in SideIds(side)
    THEN side[CHOOSE j \in 1..Len(side) : side[j].document.id = id].score
    ELSE 0

\* hybrid_weight * semantic + (1 - hybrid_weight) * keyword, times WeightDen
FusedTimesDen(id) ==
    hybrid_weight * SideScore(SemanticSide, id)
        + (WeightDen - hybrid_weight) * SideScore(KeywordSide, id)

\* C11: hybrid fusion.  In hybrid mode the candidates are the union by
\* document id of the semantic and the keyword results for 2 * limit (the
\* returned list is the best `limit` of that union, each id once); a document
\* missing on one side scores 0 there; the final score is
\* hybrid_weight * semantic + (1 - hybrid_weight) * keyword and, for
\* hybrid_weight strictly between 0 and 1, lies between the two side scores.
C11_HybridFusion ==
    (spc = "returned" /\ mode = "hybrid") =>
        LET cand == SideIds(SemanticSide) \cup SideIds(KeywordSide)
            got  == SideIds(results)
        IN  /\ got \subseteq cand
            /\ Cardinality(got) = Len(results)
            /\ Len(results) = Min(limit, Cardinality(cand))
            /\ \A j \in 1..Len(results) :
                  LET id == results[j].document.id
                      se == SideScore(SemanticSide, id)
                      kw == SideScore(KeywordSide, id)
                  IN  /\ results[j].score * WeightDen = FusedTimesDen(id)
                      /\ (0 < hybrid_weight /\ hybrid_weight < WeightDen) =>
                            /\ Min(se, kw) <= results[j].score
                            /\ results[j].score <= Max(se, kw)
                      /\ \A other \in cand \ got :
                            FusedTimesDen(other) <= FusedTimesDen(id)

\* A document that only the keyword side found is returned, with its
\* semantic side counted as 0
C11_Witness ==
    /\ spc = "returned"
    /\ mode = "hybrid"
    /\ 0 < hybrid_weight /\ hybrid_weight < WeightDen
    /\ Len(results) = 1
    /\ results[1].document.id \in SideIds(KeywordSide) \ SideIds(SemanticSide)
    /\ results[1].score > 0
    /\ results[1].score < SideScore(KeywordSide, results[1].document.id)
    /\ SideIds(SemanticSide) # {}

\* C12: search returns at most `limit` results, in every mode, for every
\* limit >= 1 and whatever the index holds.
C12_LimitRespected ==
    (spc = "returned" /\ limit >= 1) => Len(results) <= limit

\* Each mode is asked for fewer results than the index could give
C12_Witness ==
    /\ spc = "returned"
    /\ limit = 1
    /\ Len(index) = MaxDocs
    /\ mode = "bm25"
    /\ Len(results) = limit
    /\ \A j \in 1..Len(index) : KeywordScore(query, index[j].content) > 0

\* C13: with an empty vector index, a search with a non-empty query and
\* limit >= 1 returns an empty list and does not raise, in each mode.
C13_EmptyIndex ==
    (spc # "call" /\ index = <<>> /\ query # <<>> /\ limit >= 1) =>
        /\ spc = "returned"
        /\ results = <<>>

C13_Witness ==
    /\ spc = "returned"
    /\ index = <<>>
    /\ query # <<>>
    /\ limit = MaxLimit
    /\ mode = "semantic"
    /\ results = <<>>

(***************************************************************************)
(* Properties of ProgressTracker (SpecTracker)                             *)
(***************************************************************************)
\* C14: ProgressTracker counters.  Under any sequence of mark_processed,
\* mark_failed and finish calls, processed_documents and failed_documents
\* start at 0 and never decrease, mark_failed increases both by one,
\* failed_documents <= processed_documents (so success_count >= 0), and
\* failed_files has one entry per failure, in call order.
C14_TrackerCounters ==
    /\ [](tcalls = 0 =>
            ptracker.processed_documents = 0 /\ ptracker.failed_documents = 0)
    /\ [][/\ ptracker'.processed_documents >= ptracker.processed_documents
          /\ ptracker'.failed_documents >= ptracker.failed_documents]_vars
    /\ [][(tcalls' = tcalls + 1 /\ tcall'.op = "mark_failed") =>
            /\ ptracker'.processed_documents = ptracker.processed_documents + 1
            /\ ptracker'.failed_documents = ptracker.failed_documents + 1]_vars
    /\ [](/\ ptracker.failed_documents <= ptracker.processed_documents
          /\ success_count(ptracker) >= 0
          /\ Len(ptracker.failed_files) = ptracker.failed_documents
          /\ ptracker.failed_files = tfailed)

\* Failures and successes interleaved, then finish
C14_Witness ==
    /\ tcalls = MaxCalls
    /\ tcall.op = "finish"
    /\ ptracker.finished
    /\ ptracker.failed_documents = 2
    /\ ptracker.processed_documents = 3
    /\ ptracker.failed_files[1] # ptracker.failed_files[2]
    /\ success_count(ptracker) = 1

(***************************************************************************)
(* Properties of SearchEngineAdapter.rerank (SpecRerank)                   *)
(***************************************************************************)
\* The boost the claim describes, in percent: 1.0, times 1.2 when the
\* lower-cased query occurs in the content, times 1.1 when it occurs in a
\* metadata value
ClaimedBoost(doc) ==
    ((IF Contains(lower(doc.content), lower(rr_query)) THEN 120 ELSE 100)
      * (IF \E v \in {doc.metadata[k] : k \in 1..Len(doc.metadata)} :
               Contains(lower(v), lower(rr_query))
         THEN 110 ELSE 100)) \div 100

Orderings(n) ==
    {p \in [1..n -> 1..n] : \A i, j \in 1..n : p[i] = p[j] => i = j}

\* C15: rerank returns exactly the input documents, each with score
\* min(1.0, original_score * boost) for the boost above, sorted by boosted
\* score descending and ranked 0..n-1.
C15_Rerank ==
    rpc = "returned" =>
        /\ Len(rr_out) = Len(rr_results)
        /\ \E p \in Orderings(Len(rr_results)) :
              \A k \in 1..Len(rr_out) :
                  /\ rr_out[k].document = rr_results[p[k]].document
                  /\ rr_out[k].score * 100 =
                        Min(ScoreOne * 100,
                            rr_results[p[k]].score
                                * ClaimedBoost(rr_results[p[k]].document))
        /\ \A k \in 1..Len(rr_out) : rr_out[k].rank = k - 1
        /\ \A k \in 1..(Len(rr_out) - 1) : rr_out[k].score >= rr_out[k + 1].score

\* The second result is boosted on both counts, capped at 1.0 and moves first
C15_Witness ==
    /\ rpc = "returned"
    /\ Len(rr_out) = 2
    /\ rr_out[1].document.id = 2
    /\ rr_out[1].score = ScoreOne
    /\ rr_results[2].score < ScoreOne
    /\ rr_results[2].score <= rr_results[1].score
    /\ Boost(rr_query, rr_results[2].document) = 132
    /\ Boost(rr_query, rr_results[1].document) = 100
    /\ rr_query # <<>>
    /\ rr_out[2].score = rr_results[1].score
    /\ rr_out[2].score > 0

(***************************************************************************)
(* Properties of SearchEngineAdapter.expand_query (SpecExpand)             *)
(***************************************************************************)
\* The trigger terms that occur in the lower-cased query
Triggered ==
    {k \in 1..Len(_expansions) : Contains(lower(eq_query), _expansions[k].key)}

\* The synonyms of the triggered terms, as <<entry, position>> pairs
TriggeredSynonyms ==
    {<<k, j>> : k \in Triggered, j \in 1..Len(_expansions[1].synonyms)}

SynonymAt(kj) == _expansions[kj[1]].synonyms[kj[2]]

DuplicateFree(terms) ==
    \A i, j \in 1..Len(terms) : terms[i] = terms[j] => i = j

\* <<k, j>> is the first place, in dict order, where its synonym occurs
FirstSeen(kj, pairs) ==
    \A other \in pairs :
        SynonymAt(other) = SynonymAt(kj) =>
            (kj[1] < other[1] \/ (kj[1] = other[1] /\ kj[2] <= other[2]))

Before(a, b) == a[1] < b[1] \/ (a[1] = b[1] /\ a[2] < b[2])

\* expanded is q followed by the synonyms at `pairs`, duplicates dropped,
\* in first-seen order
ExpandedIs(pairs) ==
    LET terms == eq_out.expanded
        rest  == {p \in pairs : FirstSeen(p, pairs) /\ SynonymAt(p) # eq_query}
    IN  /\ terms[1] = eq_query
        /\ DuplicateFree(terms)
        /\ Len(terms) = 1 + Cardinality(rest)
        /\ \A p \in rest : \E i \in 2..Len(terms) : terms[i] = SynonymAt(p)
        /\ \A a, b \in rest :
              Before(a, b) =>
                  \A i, j \in 2..Len(terms) :
                      (terms[i] = SynonymAt(a) /\ terms[j] = SynonymAt(b)) => i < j

\* C16 as stated: for a non-empty q, expand_query returns original == q and
\* expanded a duplicate-free list that starts with q and goes on, in
\* first-seen order, with the synonyms of every trigger term occurring in
\* lower-cased q; without a trigger, expanded == [q].
C16_ExpandAllSynonyms ==
    (epc # "call" /\ eq_query # <<>>) =>
        /\ epc = "returned"
        /\ eq_out.original = eq_query
        /\ ExpandedIs(TriggeredSynonyms)
        /\ Triggered = {} => eq_out.expanded = <<eq_query>>

\* C16 (amended): as above, but a synonym equal to the lower-cased q is
\* left out, also when q itself is not lower-case.
C16_ExpandQuery ==
    (epc # "call" /\ eq_query # <<>>) =>
        /\ epc = "returned"
        /\ eq_out.original = eq_query
        /\ ExpandedIs({p \in TriggeredSynonyms : SynonymAt(p) # lower(eq_query)})
        /\ Triggered = {} => eq_out.expanded = <<eq_query>>

\* A query that is a synonym only after lower-casing
C16_Witness ==
    /\ epc = "returned"
    /\ eq_query # lower(eq_query)
    /\ \E p \in TriggeredSynonyms : SynonymAt(p) = lower(eq_query)
    /\ Len(eq_out.expanded) = 3
    /\ \A i \in 1..Len(eq_out.expanded) : eq_out.expanded[i] # lower(eq_query)

C30_AddStep ==
    (vs_calls' = vs_calls + 1 /\ vs_call'.op = "add_documents") =>
        /\ (vs_call'.err # "none") <=>
               (\E k \in 1..Len(vs_call'.docs) : ~vs_call'.docs[k].has_embedding)
        /\ vs_call'.err # "none" =>
               /\ _documents' = _documents
               /\ document_count(_documents') = document_count(_documents)

C30_AddAllOrNothing == [][C30_AddStep]_vars

(***************************************************************************)
(* Properties of search_knowledge and the version check (SpecVersion,      *)
(* FairSpecVersion)                                                        *)
(***************************************************************************)
Running(c) == sk_pc[c] \notin {"idle", "returned"}

\* C21: the notification is offered at most once per cache cycle.  It is
\* printed only on a fresh cache with update_available and without
\* notification_shown; at most one is printed between two rewrites of the
\* cache by a version check; and once _mark_notification_shown has returned,
\* _should_notify_update is false until such a rewrite.
C21_NotifyOncePerCycle ==
    /\ [][notices' = notices + 1 =>
            /\ Classify(cache_file, clock) = "fresh"
            /\ cache_file.update_available
            /\ ~cache_file.notification_shown]_vars
    /\ [](notices <= 1)
    /\ [](mark_ran => ~_should_notify_update(cache_file, clock))

\* C27: the version-check thread is started at most once in the process, and
\* only if the first check found no usable cache (missing, unreadable or
\* stale).
C27_ThreadStartedOnce ==
    /\ Len(threads) <= 1
    /\ Len(threads) >= 1 => first_cache \in {"missing", "corrupt", "stale"}

\* C28: the version check never blocks or fails search_knowledge.  Whatever
\* the _update_version_cache threads do (also when they never take a step),
\* every call that was made has a step to take until it returns, does
\* return, and returns the formatted results.
C28_SearchNeverBlocked ==
    /\ \A c \in Callers : Running(c) ~> (sk_pc[c] = "returned")
    /\ [](\A c \in Callers : Running(c) => ENABLED SkStep(c))
    /\ [](\A c \in Callers :
            sk_pc[c] = "returned" =>
                sk_out[c] \in {"results", "results+notice", "no results"})

\* A call has returned its results while the thread it started has not yet
\* heard from gh and the cache file is unreadable.
C28_Witness ==
    /\ sk_pc[1] = "returned"
    /\ sk_out[1] = "results"
    /\ Len(threads) = 1
    /\ threads[1].pc = "gh"
    /\ cache_file = CorruptFile

(***************************************************************************)
(* Properties of chunk_text (SpecChunk, FairSpecChunk)                     *)
(***************************************************************************)
ValidParams == chunk_size >= 1 /\ 0 <= overlap /\ overlap < chunk_size

Terminated == cpc \in {"returned", "raised"}

HasNonWhitespace(t) == \E k \in 1..Len(t) : ~isspace(t[k])

Covered(pos) ==
    \E k \in 1..Len(chunks) : chunks[k].start_pos <= pos /\ pos < chunks[k].end_pos

\* C8 as stated: with valid parameters chunk_text runs at most len(text)
\* iterations and a non-empty text yields at least one chunk.
C8_NonEmptyTextYieldsChunk ==
    ValidParams =>
        /\ iterations <= Len(text)
        /\ (cpc = "returned" /\ text # <<>>) => Len(chunks) >= 1

\* C8 (amended): forward progress.  With valid parameters the start position
\* strictly increases on every loop iteration, chunk_text terminates, and it
\* yields at least one chunk for every text that has a non-whitespace
\* character; the adapter, which does not strip, yields at least one chunk for
\* every non-empty text.
C8_ForwardProgress ==
    /\ [][(ValidParams /\ cpc = "loop") => (start' > start /\ cpc' # "raised")]_vars
    /\ (ValidParams => <>Terminated)
    /\ [](ValidParams => iterations <= Len(text))
    /\ []((ValidParams /\ cpc = "returned" /\ HasNonWhitespace(text))
             => Len(chunks) >= 1)
    /\ []((ValidParams /\ cpc = "returned" /\ impl = "adapter" /\ text # <<>>)
             => Len(chunks) >= 1)

C8_Witness ==
    /\ ValidParams
    /\ cpc = "returned"
    /\ impl = "stub"
    /\ iterations >= 3
    /\ Len(chunks) >= 1
    /\ Len(chunks) < iterations
    /\ overlap > 0

\* C9: chunk coverage.  For valid parameters every non-whitespace character
\* of the text lies inside a returned chunk; the chunks of the adapter start
\* at 0, each later one starts at or before the end of the one before it, and
\* the last one ends at len(text).
C9_ChunkCoverage ==
    (ValidParams /\ cpc = "returned") =>
        /\ \A pos \in 0..(Len(text) - 1) : ~isspace(text[pos + 1]) => Covered(pos)
        /\ (impl = "adapter" /\ text # <<>>) =>
              /\ chunks # <<>>
              /\ chunks[1].start_pos = 0
              /\ \A k \in 1..(Len(chunks) - 1) :
                    chunks[k + 1].start_pos <= chunks[k].end_pos
              /\ chunks[Len(chunks)].end_pos = Len(text)

C9_Witness ==
    /\ ValidParams
    /\ cpc = "returned"
    /\ impl = "adapter"
    /\ Len(chunks) >= 3
    /\ overlap = 1
    /\ chunks[2].start_pos < chunks[1].end_pos
    /\ chunks[Len(chunks)].end_pos = Len(text)
    /\ HasNonWhitespace(text)

\* C10: chunker preconditions.  chunk_text called with chunk_size < 1,
\* overlap < 0 or overlap >= chunk_size raises ValueError and returns no
\* chunks.
C10_ChunkerPreconditions ==
    (Terminated /\ ~ValidParams) =>
        /\ cpc = "raised"
        /\ cerr = "ValueError"
        /\ chunks = <<>>

\* The text from position s on is one unbroken word
UnbrokenFrom(s) == \A k \in (s + 1)..Len(text) : ~isspace(text[k])

\* C17: oversized word.  When the text from the current start is a single
\* unbroken word longer than chunk_size, chunk_text emits that word whole, as
\* one chunk longer than chunk_size; it is not cut at chunk_size.
C17_OversizedWordWhole ==
    ValidParams =>
        \A k \in 1..Len(chunks) :
            (UnbrokenFrom(chunks[k].start_pos)
                /\ Len(text) - chunks[k].start_pos > chunk_size) =>
                /\ chunks[k].end_pos = Len(text)
                /\ chunks[k].end_pos - chunks[k].start_pos > chunk_size

\* C17 (amended): no chunk is longer than chunk_size; when the text from the
\* current start is a single unbroken word longer than chunk_size, the chunk
\* emitted there is its first chunk_size characters.
C17_OversizedWordCut ==
    ValidParams =>
        \A k \in 1..Len(chunks) :
            /\ chunks[k].end_pos - chunks[k].start_pos <= chunk_size
            /\ (UnbrokenFrom(chunks[k].start_pos)
                  /\ Len(text) - chunks[k].start_pos > chunk_size) =>
                  chunks[k].end_pos = chunks[k].start_pos + chunk_size

\* A word twice as long as chunk_size comes out in pieces
C17_Witness ==
    /\ ValidParams
    /\ cpc = "returned"
    /\ UnbrokenFrom(0)
    /\ Len(text) = 2 * chunk_size
    /\ chunk_size >= 2
    /\ overlap = 0
    /\ Len(chunks) = 2
    /\ chunks[1].end_pos = chunk_size
    /\ Len(chunks[1].text) = chunk_size

\* C18: with overlap = 0 and chunk_size >= 1, consecutive chunks do not
\* overlap: end_pos[i] <= start_pos[i+1] for every i, for any text.
C18_NoOverlap ==
    (overlap = 0 /\ chunk_size >= 1) =>
        \A k \in 1..(Len(chunks) - 1) :
            chunks[k].end_pos <= chunks[k + 1].start_pos

\* Three chunks, one of them ended early at a word boundary
C18_Witness ==
    /\ overlap = 0
    /\ chunk_size = 2
    /\ cpc = "returned"
    /\ Len(chunks) = 3
    /\ chunks[1].end_pos - chunks[1].start_pos < chunk_size
    /\ chunks[1].end_pos = chunks[2].start_pos
    /\ chunks[2].end_pos = chunks[3].start_pos

\* C19: chunk_text on an empty text returns an empty sequence and does not
\* raise, in every implementation of the document processor port.
C19_EmptyTextReturnsEmpty ==
    (Terminated /\ text = <<>> /\ ValidParams) =>
        /\ cpc = "returned"
        /\ chunks = <<>>

\* C26: no redundant chunk.  With valid parameters every chunk after the
\* first ends strictly after the end of the chunk before it.
C26_NoRedundantChunk ==
    ValidParams =>
        \A k \in 2..Len(chunks) : chunks[k].end_pos > chunks[k - 1].end_pos

\* C29: no emitted chunk consists of whitespace only.
C29_NoWhitespaceOnlyChunk ==
    \A k \in 1..Len(chunks) : HasNonWhitespace(chunks[k].text)

====
